---- MODULE Spec2Model ----
(***************************************************************************)
(* Model of docky.py (USB Device Monitor): the main / GUI thread           *)
(* (__main__, USBMonitor.__init__, setup_gui, update_gui_from_queue,       *)
(* cleanup, run), the daemon worker thread (monitor_devices), the module   *)
(* globals logger, root, text_box, event_queue, running, and the OS        *)
(* creation / deletion watchers the worker polls.                          *)
(*                                                                         *)
(* A Python string is a sequence of one-character strings.                 *)
(***************************************************************************)
EXTENDS Integers, Sequences, FiniteSets, TLC

\* ------------------------------------------------------------------ bounds
MaxEvents == 2       \* plug events, unplug events and failed polling waits
WaitCap == 3         \* saturation of the waits-after-stop counter
MaxTokens == 3       \* pieces a device identifier is built from

\* ------------------------------------------------------------ device data
Unknown == <<"U", "n", "k", "n", "o", "w", "n">>
Raises == <<"!raises">>
VidSep == <<"V", "I", "D", "_">>
AmpSep == <<"&">>

\* A device is a function from the attributes it has to their values; the
\* value Raises stands for an attribute whose access raises.
DevHub ==
  [Caption |-> <<"H", "u", "b">>,
   DeviceID |-> <<"U", "\\", "V", "I", "D", "_", "1", "2", "&", "P">>,
   Status |-> <<"O", "K">>]
DevBare ==
  [Description |-> <<"G", "e", "n">>,
   DeviceID |-> <<"U", "\\", "R", "O", "O", "T">>]
Devices == {DevHub, DevBare}

\* ------------------------------------------------------- string helpers
IsPrefixAt(s, sep, i) ==
  /\ i + Len(sep) - 1 <= Len(s)
  /\ \A j \in 1..Len(sep) : s[i + j - 1] = sep[j]

RECURSIVE Find(_, _, _)
\* str.find: index of the first occurrence of sep in s at or after i, 0 if none
Find(s, sep, i) ==
  IF i + Len(sep) - 1 > Len(s) THEN 0
  ELSE IF IsPrefixAt(s, sep, i) THEN i
  ELSE Find(s, sep, i + 1)

Contains(s, sep) == Find(s, sep, 1) # 0

RECURSIVE Split(_, _)
\* str.split(sep): the pieces of s between the occurrences of sep
Split(s, sep) ==
  LET k == Find(s, sep, 1) IN
    IF k = 0 THEN <<s>>
    ELSE <<SubSeq(s, 1, k - 1)>> \o Split(SubSeq(s, k + Len(sep), Len(s)), sep)

\* an extraction that forgets the split on "&"
VendorOfWholeTail(device_id) == Split(device_id, VidSep)[2]

\* device_id.split("VID_")[1].split("&")[0]
VendorOf(device_id) == Split(Split(device_id, VidSep)[2], AmpSep)[1]

Has(device, attr) == attr \in DOMAIN device

\* a version without the elif branch on Description
get_device_details_no_elif(device) ==
  LET d0 == [Name |-> Unknown, VendorID |-> Unknown, Status |-> Unknown, err |-> FALSE]
      d1 == IF Has(device, "Caption")
              THEN IF device["Caption"] = Raises THEN [d0 EXCEPT !.err = TRUE]
                   ELSE [d0 EXCEPT !.Name = device["Caption"]]
            ELSE d0
      d2 == IF d1.err \/ ~Has(device, "DeviceID") THEN d1
            ELSE IF device["DeviceID"] = Raises THEN [d1 EXCEPT !.err = TRUE]
            ELSE IF Contains(device["DeviceID"], VidSep)
              THEN [d1 EXCEPT !.VendorID = VendorOf(device["DeviceID"])]
            ELSE d1
      d3 == IF d2.err \/ ~Has(device, "Status") THEN d2
            ELSE IF device["Status"] = Raises THEN [d2 EXCEPT !.err = TRUE]
            ELSE [d2 EXCEPT !.Status = device["Status"]]
  IN d3

\* get_device_details: the details record, and whether the except branch
\* (which writes one error log entry) was taken.
get_device_details(device) ==
  LET d0 == [Name |-> Unknown, VendorID |-> Unknown, Status |-> Unknown, err |-> FALSE]
      d1 == IF Has(device, "Caption")
              THEN IF device["Caption"] = Raises THEN [d0 EXCEPT !.err = TRUE]
                   ELSE [d0 EXCEPT !.Name = device["Caption"]]
            ELSE IF Has(device, "Description")
              THEN IF device["Description"] = Raises THEN [d0 EXCEPT !.err = TRUE]
                   ELSE [d0 EXCEPT !.Name = device["Description"]]
            ELSE d0
      d2 == IF d1.err \/ ~Has(device, "DeviceID") THEN d1
            ELSE IF device["DeviceID"] = Raises THEN [d1 EXCEPT !.err = TRUE]
            ELSE IF Contains(device["DeviceID"], VidSep)
              THEN [d1 EXCEPT !.VendorID = VendorOf(device["DeviceID"])]
            ELSE d1
      d3 == IF d2.err \/ ~Has(device, "Status") THEN d2
            ELSE IF device["Status"] = Raises THEN [d2 EXCEPT !.err = TRUE]
            ELSE [d2 EXCEPT !.Status = device["Status"]]
  IN d3

\* --------------------------------------------------------------- messages
HeaderMsg == [kind |-> "=== Current USB Devices ==="]
FoundMsg(d) ==
  [kind |-> "Device Found", Name |-> d.Name, VendorID |-> d.VendorID, Status |-> d.Status]
ConnectedMsg(d) ==
  [kind |-> "New Device Connected", Name |-> d.Name, VendorID |-> d.VendorID,
   Status |-> d.Status]
DisconnectedMsg(d) ==
  [kind |-> "Device Disconnected", Name |-> d.Name, VendorID |-> d.VendorID]
MonitorErrMsg == [kind |-> "Error monitoring devices"]
InitErrMsg == [kind |-> "Error initializing device monitoring"]

\* ------------------------------------------------------------ log entries
LogEntry(level, text) == [level |-> level, text |-> text]
LogDevice(text, d) == [level |-> "INFO", text |-> text, Name |-> d.Name]

NoDevice == [none |-> TRUE]
NoDetails == [none |-> TRUE]

\* ------------------------------------------------------------------ state
VARIABLES
  mpc,            \* position of the main / GUI thread
  wpc,            \* position of the worker thread (monitor_devices)
  running,        \* global running
  logger,         \* global logger: "none", "no_handler", "ready"
  root,           \* global root: "none", "alive", "destroyed"
  text_box,       \* visible contents of the text widget
  event_queue,    \* global event_queue
  log,            \* entries written to usb_device_log.txt
  critical,       \* where the critical entry of __main__ went
  tickPending,    \* root.after callbacks scheduled and not yet run
  comInit,        \* CoInitialize calls made by the worker
  comUninit,      \* CoUninitialize calls made by the worker
  current_devices,\* worker local: enumeration result still to report
  device,         \* worker local: device in hand
  details,        \* worker local: details of the device in hand
  created,        \* creation events waiting in the creation watcher
  deleted,        \* deletion events waiting in the deletion watcher
  attached,       \* devices attached to the host
  events,         \* plug events, unplug events and failed waits so far
  errors,         \* history: polling waits that failed with a non-timeout error
  initFailed,     \* history: a step before the polling loop raised
  pushed,         \* history: every message put on event_queue, in order
  appended,       \* history: every message inserted in text_box, in order
  enumerated,     \* history: result of the startup enumeration
  waitsAfterStop, \* history: polling waits that returned after running = FALSE
  tickStart       \* history: messages pushed when the current tick began

vars ==
  <<mpc, wpc, running, logger, root, text_box, event_queue, log, critical,
    tickPending, comInit, comUninit, current_devices, device, details,
    created, deleted, attached, events, errors, initFailed, pushed, appended, enumerated,
    waitsAfterStop, tickStart>>

mainVars ==
  <<mpc, running, logger, root, text_box, critical, tickPending, appended,
    tickStart>>
workerLocals == <<current_devices, device, details>>
envVars == <<created, deleted, attached, events, errors>>
comVars == <<comInit, comUninit>>

Init ==
  /\ mpc = "start"
  /\ wpc = "not_started"
  /\ running = TRUE
  /\ logger = "none"
  /\ root = "none"
  /\ text_box = <<>>
  /\ event_queue = <<>>
  /\ log = <<>>
  /\ critical = "none"
  /\ tickPending = 0
  /\ comInit = 0
  /\ comUninit = 0
  /\ current_devices = <<>>
  /\ device = NoDevice
  /\ details = NoDetails
  /\ created = <<>>
  /\ deleted = <<>>
  /\ attached \in SUBSET Devices
  /\ events = 0
  /\ errors = 0
  /\ initFailed = FALSE
  /\ pushed = <<>>
  /\ appended = <<>>
  /\ enumerated = <<>>
  /\ waitsAfterStop = 0
  /\ tickStart = 0

\* ---------------------------------------------------------- queue and log
\* a put that inserts at the consumer's end of the queue
PutAtFront(q, m) == <<m>> \o q

\* Queue.put on the unbounded event_queue
Put(q, m) == Append(q, m)
\* Queue.get_nowait: the message removed
GetNowait(q) == Head(q)
\* Queue.get_nowait: the queue left
AfterGet(q) == Tail(q)

QueuePut(m) ==
  /\ event_queue' = Put(event_queue, m)
  /\ pushed' = Append(pushed, m)

LogWrite(e) == log' = Append(log, e)

\* ------------------------------------------------- main thread: startup
\* USBMonitor.setup_logging, called by __init__ from __main__
SetupLogging ==
  /\ mpc = "start"
  /\ \/ logger' = "ready" /\ mpc' = "setup_gui"
     \/ logger' = "no_handler" /\ mpc' = "main_except"
  /\ UNCHANGED <<wpc, running, root, text_box, event_queue, log, critical,
                 tickPending, comVars, initFailed, workerLocals, envVars, pushed,
                 appended, enumerated, waitsAfterStop, tickStart>>

\* USBMonitor.setup_gui up to its call of update_gui_from_queue
SetupGui ==
  /\ mpc = "setup_gui"
  /\ \/ root' = "alive" /\ mpc' = "tick_check" /\ tickStart' = Len(pushed)
     \/ root' = "none" /\ mpc' = "main_except" /\ UNCHANGED tickStart
  /\ UNCHANGED <<wpc, running, logger, text_box, event_queue, log, critical,
                 tickPending, comVars, initFailed, workerLocals, envVars, pushed,
                 appended, enumerated, waitsAfterStop>>

\* a handler that re-raises without the critical entry
MainExceptSilent ==
  /\ mpc = "main_except"
  /\ mpc' = "failed"
  /\ UNCHANGED <<wpc, running, logger, root, text_box, event_queue, log, critical,
                 tickPending, comVars, initFailed, workerLocals, envVars, pushed,
                 appended, enumerated, waitsAfterStop, tickStart>>

\* __main__: except Exception, logger.critical if logger, raise
MainExcept ==
  /\ mpc = "main_except"
  /\ critical' = IF logger = "none" THEN "none"
                 ELSE IF logger = "ready" THEN "file" ELSE "stderr"
  /\ log' = IF logger = "ready"
              THEN Append(log, LogEntry("CRITICAL", "Critical error in main"))
              ELSE log
  /\ mpc' = "failed"
  /\ UNCHANGED <<wpc, running, logger, root, text_box, event_queue, tickPending,
                 comVars, initFailed, workerLocals, envVars, pushed, appended,
                 enumerated, waitsAfterStop, tickStart>>

\* USBMonitor.run: start the daemon thread, enter root.mainloop()
Run ==
  /\ mpc = "run"
  /\ mpc' = "mainloop"
  /\ wpc' = "coinit"
  /\ UNCHANGED <<running, logger, root, text_box, event_queue, log, critical,
                 tickPending, comVars, initFailed, workerLocals, envVars, pushed,
                 appended, enumerated, waitsAfterStop, tickStart>>

\* ------------------------------------------- main thread: the display tick
\* root.mainloop() runs the callback scheduled by root.after
TimerFires ==
  /\ mpc = "mainloop"
  /\ tickPending > 0
  /\ tickPending' = tickPending - 1
  /\ mpc' = "tick_check"
  /\ tickStart' = Len(pushed)
  /\ UNCHANGED <<wpc, running, logger, root, text_box, event_queue, log, critical,
                 comVars, initFailed, workerLocals, envVars, pushed, appended,
                 enumerated, waitsAfterStop>>

\* a drain loop that calls get_nowait without testing empty()
TickCheckNoTest ==
  /\ mpc = "tick_check"
  /\ mpc' = "tick_get"
  /\ UNCHANGED <<wpc, running, logger, root, text_box, event_queue, log, critical,
                 tickPending, comVars, initFailed, workerLocals, envVars, pushed,
                 appended, enumerated, waitsAfterStop, tickStart>>

\* update_gui_from_queue: while not event_queue.empty()
TickCheck ==
  /\ mpc = "tick_check"
  /\ mpc' = IF event_queue = <<>> THEN "tick_finally" ELSE "tick_get"
  /\ UNCHANGED <<wpc, running, logger, root, text_box, event_queue, log, critical,
                 tickPending, comVars, initFailed, workerLocals, envVars, pushed,
                 appended, enumerated, waitsAfterStop, tickStart>>

\* a drain loop that takes a message and does not insert it
TickGetDrops ==
  /\ mpc = "tick_get"
  /\ IF event_queue = <<>>
       THEN /\ LogWrite(LogEntry("ERROR", "Error updating GUI"))
            /\ mpc' = "tick_finally"
            /\ UNCHANGED event_queue
       ELSE /\ event_queue' = AfterGet(event_queue)
            /\ mpc' = "tick_check"
            /\ UNCHANGED log
  /\ UNCHANGED <<wpc, running, logger, root, critical, tickPending, text_box, appended,
                 comVars, initFailed, workerLocals, envVars, pushed, enumerated,
                 waitsAfterStop, tickStart>>

\* update_gui_from_queue: get_nowait, text_box.insert, text_box.see; an
\* empty queue raises queue.Empty, which the except branch logs
TickGet ==
  /\ mpc = "tick_get"
  /\ IF event_queue = <<>>
       THEN /\ LogWrite(LogEntry("ERROR", "Error updating GUI"))
            /\ mpc' = "tick_finally"
            /\ UNCHANGED <<event_queue, text_box, appended>>
       ELSE /\ event_queue' = AfterGet(event_queue)
            /\ text_box' = Append(text_box, GetNowait(event_queue))
            /\ appended' = Append(appended, GetNowait(event_queue))
            /\ mpc' = "tick_check"
            /\ UNCHANGED log
  /\ UNCHANGED <<wpc, running, logger, root, critical, tickPending,
                 comVars, initFailed, workerLocals, envVars, pushed, enumerated,
                 waitsAfterStop, tickStart>>

\* a tick that registers two callbacks when it ends
TickFinallyTwice ==
  /\ mpc = "tick_finally"
  /\ tickPending' = IF root # "none" /\ running THEN tickPending + 2 ELSE tickPending
  /\ mpc' = IF wpc = "not_started" THEN "run" ELSE "mainloop"
  /\ tickStart' = 0
  /\ UNCHANGED <<wpc, running, logger, root, text_box, event_queue, log, critical,
                 comVars, initFailed, workerLocals, envVars, pushed, appended,
                 enumerated, waitsAfterStop>>

\* update_gui_from_queue: finally, if root and running: root.after(100, ...);
\* the call returns to setup_gui (the thread is not started yet) or to mainloop
TickFinally ==
  /\ mpc = "tick_finally"
  /\ tickPending' = IF root # "none" /\ running THEN tickPending + 1 ELSE tickPending
  /\ mpc' = IF wpc = "not_started" THEN "run" ELSE "mainloop"
  /\ tickStart' = 0
  /\ UNCHANGED <<wpc, running, logger, root, text_box, event_queue, log, critical,
                 comVars, initFailed, workerLocals, envVars, pushed, appended,
                 enumerated, waitsAfterStop>>

\* ----------------------------------------------- main thread: the buttons
\* a clear that also discards what is still queued
ClearLogAndQueue ==
  /\ mpc = "mainloop"
  /\ text_box' = <<>>
  /\ event_queue' = <<>>
  /\ UNCHANGED <<mpc, wpc, running, logger, root, log, critical, tickPending,
                 comVars, initFailed, workerLocals, envVars, pushed, appended,
                 enumerated, waitsAfterStop, tickStart>>

\* Clear Log button: text_box.delete(1.0, tk.END)
ClearLog ==
  /\ mpc = "mainloop"
  /\ text_box' = <<>>
  /\ UNCHANGED <<mpc, wpc, running, logger, root, event_queue, log, critical,
                 tickPending, comVars, initFailed, workerLocals, envVars, pushed,
                 appended, enumerated, waitsAfterStop, tickStart>>

\* a cleanup that leaves the running flag alone
CleanupEnterKeepsRunning ==
  /\ mpc = "mainloop"
  /\ mpc' = "cleanup_log"
  /\ UNCHANGED <<wpc, running, logger, root, text_box, event_queue, log, critical,
                 tickPending, comVars, initFailed, workerLocals, envVars, pushed,
                 appended, enumerated, waitsAfterStop, tickStart>>

\* cleanup: global running; running = False
CleanupEnter ==
  /\ mpc = "mainloop"
  /\ running' = FALSE
  /\ mpc' = "cleanup_log"
  /\ UNCHANGED <<wpc, logger, root, text_box, event_queue, log, critical,
                 tickPending, comVars, initFailed, workerLocals, envVars, pushed, appended,
                 enumerated, waitsAfterStop, tickStart>>

\* Exit button: command=self.cleanup
ExitButton == CleanupEnter

\* root.protocol("WM_DELETE_WINDOW", self.cleanup)
WindowClose == CleanupEnter

\* cleanup: logger.info("Shutting down USB Monitor")
CleanupLog ==
  /\ mpc = "cleanup_log"
  /\ LogWrite(LogEntry("INFO", "Shutting down USB Monitor"))
  /\ mpc' = "cleanup_destroy"
  /\ UNCHANGED <<wpc, running, logger, root, text_box, event_queue, critical,
                 tickPending, comVars, initFailed, workerLocals, envVars, pushed,
                 appended, enumerated, waitsAfterStop, tickStart>>

\* a teardown that leaves the timer callback registered and the loop running
CleanupDestroyKeepsTimer ==
  /\ mpc = "cleanup_destroy"
  /\ root' = "destroyed"
  /\ mpc' = "mainloop"
  /\ UNCHANGED <<wpc, running, logger, text_box, event_queue, log, critical, tickPending,
                 comVars, initFailed, workerLocals, envVars, pushed, appended,
                 enumerated, waitsAfterStop, tickStart>>

\* cleanup: root.destroy(); the scheduled callbacks die with the window
CleanupDestroy ==
  /\ mpc = "cleanup_destroy"
  /\ root' = "destroyed"
  /\ tickPending' = 0
  /\ mpc' = "mainloop_returned"
  /\ UNCHANGED <<wpc, running, logger, text_box, event_queue, log, critical,
                 comVars, initFailed, workerLocals, envVars, pushed, appended,
                 enumerated, waitsAfterStop, tickStart>>

\* run returns after root.mainloop(); the main thread ends and the
\* interpreter exits without waiting for the daemon worker
ProcessExit ==
  /\ mpc = "mainloop_returned"
  /\ mpc' = "exited"
  /\ wpc' = IF wpc = "done" THEN "done" ELSE "killed"
  /\ UNCHANGED <<running, logger, root, text_box, event_queue, log, critical,
                 tickPending, comVars, initFailed, workerLocals, envVars, pushed,
                 appended, enumerated, waitsAfterStop, tickStart>>

\* ------------------------------------------------- worker: initialisation
Min(a, b) == IF a < b THEN a ELSE b

\* the orders in which the OS may list the devices of S
Listings(S) ==
  {q \in [1..Cardinality(S) -> S] : \A i, j \in 1..Cardinality(S) : q[i] = q[j] => i = j}

\* monitor_devices: pythoncom.CoInitialize()
CoInitialize ==
  /\ wpc = "coinit"
  /\ comInit' = comInit + 1
  /\ wpc' = "wmi"
  /\ UNCHANGED <<mainVars, event_queue, log, comUninit, initFailed, workerLocals, envVars,
                 pushed, enumerated, waitsAfterStop>>

\* monitor_devices: c = wmi.WMI(), which may raise
WmiConnect ==
  /\ wpc = "wmi"
  /\ wpc' \in {"watch_creation", "init_err_log"}
  /\ initFailed' = (wpc' = "init_err_log")
  /\ UNCHANGED <<mainVars, event_queue, log, comVars, workerLocals, envVars,
                 pushed, enumerated, waitsAfterStop>>

\* monitor_devices: device_creation = c.Win32_USBHub.watch_for("creation")
WatchCreation ==
  /\ wpc = "watch_creation"
  /\ wpc' \in {"watch_deletion", "init_err_log"}
  /\ initFailed' = (wpc' = "init_err_log")
  /\ UNCHANGED <<mainVars, event_queue, log, comVars, workerLocals, envVars,
                 pushed, enumerated, waitsAfterStop>>

\* monitor_devices: device_deletion = c.Win32_USBHub.watch_for("deletion")
WatchDeletion ==
  /\ wpc = "watch_deletion"
  /\ wpc' \in {"enumerate", "init_err_log"}
  /\ initFailed' = (wpc' = "init_err_log")
  /\ UNCHANGED <<mainVars, event_queue, log, comVars, workerLocals, envVars,
                 pushed, enumerated, waitsAfterStop>>

\* monitor_devices: current_devices = c.Win32_USBHub(), which may raise
Enumerate ==
  /\ wpc = "enumerate"
  /\ \/ \E devs \in Listings(attached) :
          /\ current_devices' = devs
          /\ enumerated' = devs
          /\ wpc' = "put_header"
     \/ wpc' = "init_err_log" /\ UNCHANGED <<current_devices, enumerated>>
  /\ initFailed' = (wpc' = "init_err_log")
  /\ UNCHANGED <<mainVars, event_queue, log, comVars, device, details, envVars,
                 pushed, waitsAfterStop>>

\* monitor_devices: event_queue.put("=== Current USB Devices ===")
PutHeader ==
  /\ wpc = "put_header"
  /\ QueuePut(HeaderMsg)
  /\ wpc' = "for_devices"
  /\ UNCHANGED <<mainVars, log, comVars, initFailed, workerLocals, envVars, enumerated,
                 waitsAfterStop>>

\* an enumeration loop that walks current_devices from its end
ForDevicesReversed ==
  /\ wpc = "for_devices"
  /\ IF current_devices = <<>>
       THEN wpc' = "loop" /\ UNCHANGED <<current_devices, device>>
       ELSE /\ device' = current_devices[Len(current_devices)]
            /\ current_devices' = SubSeq(current_devices, 1, Len(current_devices) - 1)
            /\ wpc' = "found_details"
  /\ UNCHANGED <<mainVars, event_queue, log, comVars, initFailed, details, envVars,
                 pushed, enumerated, waitsAfterStop>>

\* monitor_devices: for device in current_devices
ForDevices ==
  /\ wpc = "for_devices"
  /\ IF current_devices = <<>>
       THEN wpc' = "loop" /\ UNCHANGED <<current_devices, device>>
       ELSE /\ device' = Head(current_devices)
            /\ current_devices' = Tail(current_devices)
            /\ wpc' = "found_details"
  /\ UNCHANGED <<mainVars, event_queue, log, comVars, initFailed, details, envVars, pushed,
                 enumerated, waitsAfterStop>>

\* details = self.get_device_details(device), with the error entry its
\* except branch writes
GetDetails(from, to) ==
  /\ wpc = from
  /\ details' = get_device_details(device)
  /\ log' = IF details'.err
              THEN Append(log, LogEntry("ERROR", "Error getting device details"))
              ELSE log
  /\ device' = NoDevice
  /\ wpc' = to
  /\ UNCHANGED <<mainVars, event_queue, comVars, initFailed, current_devices, envVars, pushed,
                 enumerated, waitsAfterStop>>

\* event_queue.put(message); details is dropped with its last use
PutMessage(from, msg, to, last) ==
  /\ wpc = from
  /\ QueuePut(msg)
  /\ details' = IF last THEN NoDetails ELSE details
  /\ wpc' = to
  /\ UNCHANGED <<mainVars, log, comVars, initFailed, current_devices, device, envVars,
                 enumerated, waitsAfterStop>>

\* logger.info(...) or logger.error(...) of the worker, the last use of
\* details in its iteration
WorkerLog(from, entry, to) ==
  /\ wpc = from
  /\ LogWrite(entry)
  /\ details' = NoDetails
  /\ wpc' = to
  /\ UNCHANGED <<mainVars, event_queue, comVars, initFailed, current_devices, device, envVars,
                 pushed, enumerated, waitsAfterStop>>

\* enumeration loop body: details, message, event_queue.put(message)
FoundDetails == GetDetails("found_details", "found_put")
FoundPut == PutMessage("found_put", FoundMsg(details), "for_devices", TRUE)

\* ---------------------------------------------------- worker: polling loop
\* a loop head that never reads the running flag
WhileTrue ==
  /\ wpc = "loop"
  /\ wpc' = "creation_wait"
  /\ UNCHANGED <<mainVars, event_queue, log, comVars, initFailed, workerLocals,
                 envVars, pushed, enumerated, waitsAfterStop>>

\* monitor_devices: while running
WhileRunning ==
  /\ wpc = "loop"
  /\ wpc' = IF running THEN "creation_wait" ELSE "couninit"
  /\ UNCHANGED <<mainVars, event_queue, log, comVars, initFailed, workerLocals, envVars,
                 pushed, enumerated, waitsAfterStop>>

\* a polling wait returns: count it when running is already False
CountWait ==
  waitsAfterStop' = IF running THEN waitsAfterStop
                    ELSE Min(waitsAfterStop + 1, WaitCap)

\* a timeout handled like any other failure
OnTimeoutAsError == "err_log"

\* except wmi.x_wmi_timed_out: continue
OnTimeout == "loop"

\* new_device = device_creation(timeout_ms=100): an event, a timeout, or
\* another failure
CreationWait ==
  /\ wpc = "creation_wait"
  /\ CountWait
  /\ \/ /\ created # <<>>
        /\ device' = Head(created)
        /\ created' = Tail(created)
        /\ wpc' = "creation_details"
        /\ UNCHANGED <<events, errors>>
     \/ /\ created = <<>>
        /\ wpc' = OnTimeout
        /\ UNCHANGED <<device, created, events, errors>>
     \/ /\ events < MaxEvents
        /\ events' = events + 1
        /\ errors' = errors + 1
        /\ wpc' = "err_log"
        /\ UNCHANGED <<device, created>>
  /\ UNCHANGED <<mainVars, event_queue, log, comVars, initFailed, current_devices, details,
                 deleted, attached, pushed, enumerated>>

CreationDetails == GetDetails("creation_details", "creation_put")
CreationPut == PutMessage("creation_put", ConnectedMsg(details), "creation_log", FALSE)
\* a connect that is queued and not logged
CreationLogSkipped ==
  /\ wpc = "creation_log"
  /\ details' = NoDetails
  /\ wpc' = "deletion_wait"
  /\ UNCHANGED <<mainVars, event_queue, log, comVars, initFailed, current_devices, device,
                 envVars, pushed, enumerated, waitsAfterStop>>

CreationLog ==
  WorkerLog("creation_log", LogDevice("New device connected", details), "deletion_wait")

\* removed_device = device_deletion(timeout_ms=100)
DeletionWait ==
  /\ wpc = "deletion_wait"
  /\ CountWait
  /\ \/ /\ deleted # <<>>
        /\ device' = Head(deleted)
        /\ deleted' = Tail(deleted)
        /\ wpc' = "deletion_details"
        /\ UNCHANGED <<events, errors>>
     \/ /\ deleted = <<>>
        /\ wpc' = OnTimeout
        /\ UNCHANGED <<device, deleted, events, errors>>
     \/ /\ events < MaxEvents
        /\ events' = events + 1
        /\ errors' = errors + 1
        /\ wpc' = "err_log"
        /\ UNCHANGED <<device, deleted>>
  /\ UNCHANGED <<mainVars, event_queue, log, comVars, initFailed, current_devices, details,
                 created, attached, pushed, enumerated>>

DeletionDetails == GetDetails("deletion_details", "deletion_put")
DeletionPut == PutMessage("deletion_put", DisconnectedMsg(details), "deletion_log", FALSE)
DeletionLog ==
  WorkerLog("deletion_log", LogDevice("Device disconnected", details), "loop")

\* except Exception in the loop: logger.error, event_queue.put, next iteration
ErrLog == WorkerLog("err_log", LogEntry("ERROR", "Error in device monitoring"), "err_put")
\* a handler that ends the thread after reporting
AfterErrPutStops == "couninit"

\* the except branch falls through to the loop head
AfterErrPut == "loop"
ErrPut == PutMessage("err_put", MonitorErrMsg, AfterErrPut, TRUE)

\* outer except Exception: logger.error, event_queue.put, then finally
InitErrLog ==
  WorkerLog("init_err_log", LogEntry("ERROR", "Error in monitor_devices"), "init_err_put")
\* an outer handler that carries on into the polling loop
InitErrPutContinues == PutMessage("init_err_put", InitErrMsg, "loop", TRUE)

InitErrPut == PutMessage("init_err_put", InitErrMsg, "couninit", TRUE)

\* finally: pythoncom.CoUninitialize(); the thread ends
CoUninitialize ==
  /\ wpc = "couninit"
  /\ comUninit' = comUninit + 1
  /\ wpc' = "done"
  /\ UNCHANGED <<mainVars, event_queue, log, comInit, initFailed, workerLocals, envVars,
                 pushed, enumerated, waitsAfterStop>>

\* ------------------------------------------------------------ environment
\* worker positions at which the watcher returned by watch_for exists
CreationWatched ==
  wpc \in {"watch_deletion", "enumerate", "put_header", "for_devices",
           "found_details", "found_put", "loop", "creation_wait",
           "creation_details", "creation_put", "creation_log", "deletion_wait",
           "deletion_details", "deletion_put", "deletion_log", "err_log",
           "err_put"}
DeletionWatched == CreationWatched /\ wpc # "watch_deletion"

\* a device is attached and the creation watcher gets the event
Plug ==
  /\ CreationWatched
  /\ events < MaxEvents
  /\ events' = events + 1
  /\ \E d \in Devices \ attached :
        /\ attached' = attached \cup {d}
        /\ created' = Append(created, d)
  /\ UNCHANGED <<mainVars, wpc, event_queue, log, comVars, initFailed, workerLocals, deleted,
                 pushed, enumerated, waitsAfterStop, errors>>

\* a device is detached and the deletion watcher gets the event
Unplug ==
  /\ DeletionWatched
  /\ events < MaxEvents
  /\ events' = events + 1
  /\ \E d \in attached :
        /\ attached' = attached \ {d}
        /\ deleted' = Append(deleted, d)
  /\ UNCHANGED <<mainVars, wpc, event_queue, log, comVars, initFailed, workerLocals, created,
                 pushed, enumerated, waitsAfterStop, errors>>

\* ---------------------------------------------------------- specification
\* the steps of one display tick
update_gui_from_queue ==
  \/ TickCheck
  \/ TickGet
  \/ TickFinally

\* the steps of cleanup after running = False
cleanup ==
  \/ CleanupLog
  \/ CleanupDestroy

MainStep ==
  \/ SetupLogging
  \/ SetupGui
  \/ MainExcept
  \/ Run
  \/ TimerFires
  \/ update_gui_from_queue
  \/ cleanup
  \/ ProcessExit

UserStep ==
  \/ ClearLog
  \/ ExitButton
  \/ WindowClose

monitor_devices ==
  \/ CoInitialize
  \/ WmiConnect
  \/ WatchCreation
  \/ WatchDeletion
  \/ Enumerate
  \/ PutHeader
  \/ ForDevices
  \/ FoundDetails
  \/ FoundPut
  \/ WhileRunning
  \/ CreationWait
  \/ CreationDetails
  \/ CreationPut
  \/ CreationLog
  \/ DeletionWait
  \/ DeletionDetails
  \/ DeletionPut
  \/ DeletionLog
  \/ ErrLog
  \/ ErrPut
  \/ InitErrLog
  \/ InitErrPut
  \/ CoUninitialize

EnvStep ==
  \/ Plug
  \/ Unplug

Next ==
  \/ MainStep
  \/ UserStep
  \/ monitor_devices
  \/ EnvStep

Spec == Init /\ [][Next]_vars

\* the scheduler runs both threads; the user and the OS events are free
FairSpec == Spec /\ WF_vars(MainStep) /\ WF_vars(monitor_devices)

\* only the GUI timer is fair: a registered callback runs (root.after, line
\* 115) and a running tick goes on to its end; the worker may stall
TimerFairSpec == Spec /\ WF_vars(TimerFires \/ update_gui_from_queue)

\* ================================================================ claims
Range(q) == {q[i] : i \in 1..Len(q)}
Count(q, x) == Cardinality({i \in 1..Len(q) : q[i] = x})
IsPrefix(p, q) == Len(p) <= Len(q) /\ \A i \in 1..Len(p) : p[i] = q[i]

\* C1: under every interleaving of worker pushes and display ticks, the
\* messages appended to the display are, in order, a prefix of the messages
\* pushed to the event queue: none reordered, none duplicated.
C1_DisplayedIsPrefixOfPushed == IsPrefix(appended, pushed)

\* C1 witness: a tick has displayed two messages while the worker has pushed
\* further ones that are still queued.
C1_Witness ==
  /\ Len(appended) >= 2
  /\ Len(event_queue) >= 2
  /\ mpc = "tick_get"

\* C2: after cleanup has set running to False, at most two polling waits
\* return (the one in progress and one more), and a worker that observes
\* running = False at the loop head leaves the loop for its release step.
C2_StopWithinOneMoreWait ==
  /\ [](waitsAfterStop <= 2)
  /\ [][(wpc = "loop" /\ ~running /\ wpc' # wpc) => wpc' \in {"couninit", "killed"}]_vars

\* C2 witness: the flag was set during a creation-wait, that wait and the
\* deletion-wait after it returned, and the worker then left the loop.
C2_Witness == waitsAfterStop = 2 /\ wpc = "done"

\* worker positions inside the polling loop (while running ... )
PollingPcs ==
  {"loop", "creation_wait", "creation_details", "creation_put", "creation_log",
   "deletion_wait", "deletion_details", "deletion_put", "deletion_log",
   "err_log", "err_put"}
\* worker positions from the outer except branch to the end of the thread
EndingPcs == {"init_err_log", "init_err_put", "couninit", "done", "killed"}

KindCount(q, kind) == Cardinality({i \in 1..Len(q) : q[i].kind = kind})

\* C3: while running stays True and the worker polls, every deletion event
\* the OS hands to the deletion watcher is eventually reported as a
\* 'Device Disconnected' message, whether or not a creation event occurs.
C3_DisconnectEventuallyReported ==
  \A n \in 0..(MaxEvents + 1) :
    (deleted # <<>> /\ KindCount(pushed, "Device Disconnected") = n)
      ~> \/ KindCount(pushed, "Device Disconnected") > n
         \/ ~running
         \/ wpc \in EndingPcs

MonitorErrEntry == LogEntry("ERROR", "Error in device monitoring")

\* C4: a polling wait that fails with a non-timeout error yields exactly one
\* error log entry and exactly one 'Error monitoring devices' message, and
\* the worker stays in the loop: its next step is the running check, and it
\* has not terminated while running is True.
C4_WaitFailureReportedLoopContinues ==
  /\ [](/\ Count(log, MonitorErrEntry) \in
             IF wpc = "killed" THEN {errors - 1, errors}
             ELSE IF wpc = "err_log" THEN {errors - 1} ELSE {errors}
        /\ Count(pushed, MonitorErrMsg) \in
             IF wpc = "killed" THEN {errors - 1, errors}
             ELSE IF wpc \in {"err_log", "err_put"} THEN {errors - 1} ELSE {errors}
        /\ (errors > 0 /\ running) => wpc \in PollingPcs)
  /\ [][(wpc = "err_put" /\ wpc' # wpc) => wpc' \in {"loop", "killed"}]_vars

\* C4 witness: a wait failed, was logged and reported, and the worker is
\* polling again with running still True.
C4_Witness ==
  /\ errors = 1
  /\ running
  /\ wpc = "creation_wait"
  /\ MonitorErrMsg \in Range(pushed)
  /\ MonitorErrEntry \in Range(log)

InitErrEntry == LogEntry("ERROR", "Error in monitor_devices")

\* the report of a failed initialisation: one log entry, one message
InitFailureReported ==
  /\ Count(log, InitErrEntry) \in
       IF ~initFailed THEN {0}
       ELSE IF wpc = "killed" THEN {0, 1}
       ELSE IF wpc = "init_err_log" THEN {0} ELSE {1}
  /\ Count(pushed, InitErrMsg) \in
       IF ~initFailed THEN {0}
       ELSE IF wpc = "killed" THEN {0, 1}
       ELSE IF wpc \in {"init_err_log", "init_err_put"} THEN {0} ELSE {1}

\* C5 as stated: a failure of the watch setup or of the enumeration is
\* logged and reported, and the worker is in the polling loop afterwards
\* for as long as running is True.
C5_InitFailureLoopContinues ==
  /\ InitFailureReported
  /\ (initFailed /\ running /\ InitErrMsg \in Range(pushed)) => wpc \in PollingPcs

\* C5 amended: a failure of the watch setup or of the enumeration is logged
\* once and reported once, and the worker then releases COM and ends
\* without ever entering the polling loop.
C5_InitFailureEndsWorker ==
  /\ InitFailureReported
  /\ initFailed => wpc \in EndingPcs
  /\ (initFailed /\ wpc = "done") => comUninit = 1

\* C5 witness: the failure was reported and the thread has ended while
\* running is still True and the display keeps ticking.
C5_Witness ==
  /\ initFailed
  /\ wpc = "done"
  /\ running
  /\ mpc = "tick_check"
  /\ InitErrMsg \in Range(appended)

FoundOf(dev) == FoundMsg(get_device_details(dev))

\* header once and first, then the 'Device Found' messages of the
\* enumerated devices in enumeration order, before every device event
StartupMessagesInOrder ==
  (~initFailed /\ pushed # <<>>) =>
    LET k == Len(enumerated)
        found == {i \in 1..Len(pushed) : pushed[i].kind = "Device Found"}
    IN /\ pushed[1] = HeaderMsg
       /\ Count(pushed, HeaderMsg) = 1
       /\ found = 2..(1 + Cardinality(found))
       /\ Cardinality(found) <= k
       /\ \A i \in found : pushed[i] = FoundOf(enumerated[i - 1])
       /\ wpc \in PollingPcs \cup {"couninit", "done"} => Cardinality(found) = k
       /\ \A i \in 1..Len(pushed) :
            pushed[i].kind \in {"New Device Connected", "Device Disconnected"}
              => /\ i > k + 1
                 /\ Cardinality(found) = k

\* C6 as stated: on a successful start with k devices the header is pushed
\* once, then exactly k 'Device Found' messages in enumeration order, all
\* before any connect / disconnect message; with k = 0 the header is the
\* only message queued until a device event occurs.
C6_StartupReport ==
  /\ StartupMessagesInOrder
  /\ (~initFailed /\ pushed # <<>> /\ enumerated = <<>> /\ events - errors = 0)
       => pushed = <<HeaderMsg>>

\* C6 amended: as C6, and with k = 0 the header is the only message queued
\* until a device event occurs or a polling wait fails.
C6_StartupReportUntilEventOrFailure ==
  /\ StartupMessagesInOrder
  /\ (~initFailed /\ pushed # <<>> /\ enumerated = <<>> /\ events = 0)
       => pushed = <<HeaderMsg>>

\* C6 witness: two devices were enumerated and reported, and two device
\* events have been reported after them.
C6_Witness ==
  /\ Len(enumerated) = 2
  /\ Len(pushed) = 5
  /\ pushed[4].kind = "New Device Connected"
  /\ pushed[5].kind = "Device Disconnected"
  /\ wpc = "loop"

ShutdownEntry == LogEntry("INFO", "Shutting down USB Monitor")

\* C7: cleanup, the action of both the Exit button and the window-close
\* control, sets running to False, then writes the shutdown entry, then
\* destroys the window; whenever the window is destroyed, running is False.
C7_CleanupOrder ==
  /\ root = "destroyed" => (~running /\ Count(log, ShutdownEntry) = 1)
  /\ ShutdownEntry \in Range(log) => ~running
  /\ mpc = "cleanup_log" =>
       (~running /\ ShutdownEntry \notin Range(log) /\ root = "alive")
  /\ mpc = "cleanup_destroy" =>
       (~running /\ ShutdownEntry \in Range(log) /\ root = "alive")
  /\ ~running =>
       mpc \in {"cleanup_log", "cleanup_destroy", "mainloop_returned", "exited"}

\* C7 witness: the window is destroyed while the worker is still inside a
\* polling wait.
C7_Witness ==
  /\ root = "destroyed"
  /\ wpc = "creation_wait"
  /\ mpc = "mainloop_returned"

IsSuffix(p, q) ==
  /\ Len(p) <= Len(q)
  /\ \A i \in 1..Len(p) : p[i] = q[Len(q) - Len(p) + i]

\* C8: a step that removes visible text empties the text widget and changes
\* nothing else: the log file, the event queue, the running flag and the
\* worker are as before, so what was queued is still there for later ticks;
\* the visible text is always the tail of what the ticks have appended.
C8_ClearLogFrame ==
  /\ [][Len(text_box') < Len(text_box) =>
          /\ text_box' = <<>>
          /\ UNCHANGED <<log, event_queue, running, wpc, workerLocals, pushed,
                         appended, mpc, root, tickPending, comVars>>]_vars
  /\ [](IsSuffix(text_box, appended))

\* C8 witness: the text was cleared after a tick had displayed messages,
\* and a later tick has displayed one more message from the queue.
C8_Witness ==
  /\ Len(text_box) = 1
  /\ Len(appended) >= 2
  /\ event_queue = <<>>
  /\ mpc = "mainloop"

GuiErrEntry == LogEntry("ERROR", "Error updating GUI")

\* C9: a display tick never calls get_nowait on an empty queue and never
\* logs a GUI error; every message it removes is appended to the display,
\* and when it ends every message pushed before it began has been displayed.
C9_TickDrainsWithoutBlocking ==
  /\ mpc = "tick_get" => event_queue # <<>>
  /\ GuiErrEntry \notin Range(log)
  /\ pushed = appended \o event_queue
  /\ mpc = "tick_finally" => Len(appended) >= tickStart

\* C9 witness: a tick that began with two messages pushed has ended, and
\* the worker has pushed another message since the tick saw the queue empty.
C9_Witness ==
  /\ mpc = "tick_finally"
  /\ tickStart >= 2
  /\ Len(appended) >= tickStart
  /\ event_queue # <<>>

\* C10: the worker initialises COM once before any OS query and releases
\* it once when it ends; when the process has ended, also with the worker
\* inside a wait at the time the main thread finished, the worker has been
\* through its release step.
C10_ComReleasedOnEveryExit ==
  /\ comInit <= 1
  /\ comUninit <= comInit
  /\ wpc \notin {"not_started", "coinit", "killed"} => comInit = 1
  /\ wpc = "done" => comUninit = 1
  /\ mpc = "exited" => comUninit = comInit

CriticalEntry == LogEntry("CRITICAL", "Critical error in main")

\* C11: a failure of setup_logging or setup_gui ends the process in the
\* failed state with the worker never started and nothing run afterwards;
\* logger.critical is called exactly when logger is set, and the entry is in
\* the log file exactly when the logger had its handler at the failure.
C11_StartupFailurePropagates ==
  /\ [](mpc \in {"main_except", "failed"} =>
          /\ wpc = "not_started"
          /\ comInit = 0
          /\ pushed = <<>>)
  /\ [](mpc = "failed" =>
          /\ (critical # "none") <=> (logger # "none")
          /\ (CriticalEntry \in Range(log)) <=> (logger = "ready")
          /\ Count(log, CriticalEntry) <= 1)
  /\ [](CriticalEntry \in Range(log) => mpc = "failed")
  /\ [][mpc # "failed"]_vars

\* C11 witness: setup_gui failed after logging was set up, and the critical
\* entry is in the log file.
C11_Witness ==
  /\ mpc = "failed"
  /\ logger = "ready"
  /\ root = "none"
  /\ log = <<CriticalEntry>>

\* ------------------------------------------- get_device_details on its own
\* Device records for get_device_details: every subset of the attributes
\* Caption, Description, DeviceID, Status, each present attribute holding a
\* string or raising on access.  Identifiers are built from the pieces that
\* the extraction looks for.
Tokens == {VidSep, AmpSep, <<"1">>, <<"V">>}

RECURSIVE Identifiers(_)
Identifiers(n) ==
  IF n = 0 THEN {<<>>}
  ELSE LET S == Identifiers(n - 1) IN S \cup {s \o t : s \in S, t \in Tokens}

NoAttr == [a \in {} |-> <<>>]
Attr(name, values) == {NoAttr} \cup {name :> v : v \in values}

DeviceRecords ==
  {c @@ d @@ i @@ s :
     c \in Attr("Caption", {<<"H", "u", "b">>, Raises}),
     d \in Attr("Description", {<<"G", "e", "n">>, Raises}),
     i \in Attr("DeviceID", Identifiers(MaxTokens) \cup {Raises}),
     s \in Attr("Status", {<<"O", "K">>, Raises})}

\* The worker holds one enumerated device and is about to call
\* get_device_details on it (line 133), the GUI running.
DetailsInit ==
  /\ mpc = "mainloop"
  /\ wpc = "found_details"
  /\ running = TRUE
  /\ logger = "ready"
  /\ root = "alive"
  /\ text_box = <<>>
  /\ event_queue = <<HeaderMsg>>
  /\ log = <<>>
  /\ critical = "none"
  /\ tickPending = 1
  /\ comInit = 1
  /\ comUninit = 0
  /\ current_devices = <<>>
  /\ device \in DeviceRecords
  /\ details = NoDetails
  /\ created = <<>>
  /\ deleted = <<>>
  /\ attached = {}
  /\ events = 0
  /\ errors = 0
  /\ initFailed = FALSE
  /\ pushed = <<HeaderMsg>>
  /\ appended = <<>>
  /\ enumerated = <<device>>
  /\ waitsAfterStop = 0
  /\ tickStart = 0

DetailsNext == FoundDetails \/ FoundPut

DetailsSpec == DetailsInit /\ [][DetailsNext]_vars

\* no attribute of the device raises on access
Readable(dev) == \A a \in DOMAIN dev : dev[a] # Raises

\* the attributes read before DeviceID (lines 48-51) do not raise
NameReadable(dev) ==
  IF Has(dev, "Caption") THEN dev["Caption"] # Raises
  ELSE Has(dev, "Description") => dev["Description"] # Raises

DetailsErrEntry == LogEntry("ERROR", "Error getting device details")

\* C12: for a device with any subset of Caption, Description, DeviceID and
\* Status, get_device_details returns (it never raises; an attribute that
\* raises is logged) a record with the keys Name, Vendor ID, Status; Name is
\* Caption if present, else Description if present, else 'Unknown'; Status is
\* the device's Status if present, else 'Unknown'; the vendor id of a device
\* without an identifier, or without 'VID_' in it, is 'Unknown'.
C12_DetailsDefaults ==
  wpc = "found_put" =>
    LET dev == enumerated[1] IN
      /\ DOMAIN details = {"Name", "VendorID", "Status", "err"}
      /\ details.err => ~Readable(dev)
      /\ log = IF details.err THEN <<DetailsErrEntry>> ELSE <<>>
      /\ details.Name \in {Unknown} \cup {dev[a] : a \in DOMAIN dev \cap {"Caption", "Description"}}
      /\ details.Status \in {Unknown} \cup {dev[a] : a \in DOMAIN dev \cap {"Status"}}
      /\ Readable(dev) =>
           /\ details.Name = IF Has(dev, "Caption") THEN dev["Caption"]
                             ELSE IF Has(dev, "Description") THEN dev["Description"]
                             ELSE Unknown
           /\ details.Status = IF Has(dev, "Status") THEN dev["Status"] ELSE Unknown
           /\ (~Has(dev, "DeviceID") \/ ~Contains(dev["DeviceID"], VidSep))
                => details.VendorID = Unknown

\* C12 witness: a device with only a Description and an identifier without
\* 'VID_' got Name from Description and 'Unknown' for the other two.
C12_Witness ==
  /\ wpc = "found_put"
  /\ DOMAIN enumerated[1] = {"Description", "DeviceID"}
  /\ Readable(enumerated[1])
  /\ enumerated[1]["DeviceID"] = <<"V", "1", "&">>
  /\ details.Name = <<"G", "e", "n">>
  /\ details.VendorID = Unknown
  /\ details.Status = Unknown

\* the text of s before the first occurrence of sep, all of s if none
Before(s, sep) ==
  LET k == Find(s, sep, 1) IN IF k = 0 THEN s ELSE SubSeq(s, 1, k - 1)

\* the text of s after the first occurrence of sep (sep occurs in s)
After(s, sep) == SubSeq(s, Find(s, sep, 1) + Len(sep), Len(s))

\* the vendor id get_device_details is to produce for dev, given the text
\* expected for an identifier that contains 'VID_'
VendorExpected(dev, expected(_)) ==
  IF /\ NameReadable(dev)
     /\ Has(dev, "DeviceID")
     /\ dev["DeviceID"] # Raises
     /\ Contains(dev["DeviceID"], VidSep)
  THEN expected(dev["DeviceID"])
  ELSE Unknown

UpToAmp(id) == Before(After(id, VidSep), AmpSep)
UpToAmpOrVid(id) == Before(Before(After(id, VidSep), VidSep), AmpSep)

\* C13 as stated: the vendor id of an identifier containing 'VID_' is the
\* text from just after the first 'VID_' up to the next '&' (or the end);
\* otherwise it is 'Unknown'.
C13_VendorUpToAmp ==
  wpc = "found_put" => details.VendorID = VendorExpected(enumerated[1], UpToAmp)

\* C13 amended: the vendor id of an identifier containing 'VID_' is the text
\* from just after the first 'VID_' up to the next '&' or the next 'VID_',
\* whichever comes first (or the end); for an identifier without 'VID_', or
\* a device without an identifier, it is 'Unknown'.
C13_VendorUpToAmpOrVid ==
  wpc = "found_put" => details.VendorID = VendorExpected(enumerated[1], UpToAmpOrVid)

\* C13 witness: the identifier "VID_1&" gave the vendor id "1".
C13_Witness ==
  /\ wpc = "found_put"
  /\ Has(enumerated[1], "DeviceID")
  /\ enumerated[1]["DeviceID"] = VidSep \o <<"1">> \o AmpSep
  /\ details.VendorID = <<"1">>

\* a step in which the creation-wait returns with neither an event nor a
\* failure other than the timeout
CreationTimedOut ==
  /\ wpc = "creation_wait"
  /\ wpc' \notin {"creation_wait", "killed"}
  /\ created = <<>>
  /\ errors' = errors

\* the same for the deletion-wait
DeletionTimedOut ==
  /\ wpc = "deletion_wait"
  /\ wpc' \notin {"deletion_wait", "killed"}
  /\ deleted = <<>>
  /\ errors' = errors

\* C14: every polling iteration attempts the creation-wait and then the
\* deletion-wait: an iteration whose creation-wait timed out goes on to the
\* deletion-wait.
C14_DeletionWaitAfterCreationTimeout ==
  [][CreationTimedOut => wpc' = "deletion_wait"]_vars

\* C15: a timeout of the creation-wait or of the deletion-wait pushes no
\* message, writes no log entry and leaves the worker at the head of the
\* polling loop, whose next step tests the running flag.
C15_TimeoutIsSilent ==
  /\ [][(CreationTimedOut \/ DeletionTimedOut) =>
          /\ wpc' = "loop"
          /\ UNCHANGED <<event_queue, pushed, log, text_box, comVars>>]_vars
  /\ [][(wpc = "loop" /\ wpc' \notin {"loop", "killed"}) =>
          wpc' = IF running THEN "creation_wait" ELSE "couninit"]_vars

\* C15 witness: a connect was reported and the deletion-wait that followed
\* timed out: the worker is back at the loop head with nothing more queued
\* or logged.
C15_Witness ==
  /\ wpc = "loop"
  /\ running
  /\ errors = 0
  /\ KindCount(pushed, "New Device Connected") = 1
  /\ KindCount(pushed, "Device Disconnected") = 0
  /\ Len(log) = 1
  /\ log[1].text = "New device connected"

\* messages of the monitor loop about a device, and log entries about one
IsFoundMsg(m) == m.kind = "Device Found"
IsEventMsg(m) == m.kind \in {"New Device Connected", "Device Disconnected"}
IsDeviceEntry(e) == "Name" \in DOMAIN e
EntryTextOf(kind) ==
  IF kind = "New Device Connected" THEN "New device connected" ELSE "Device disconnected"

\* the worker is not between the details of an observation and its last step
Quiescent == wpc \in {"loop", "creation_wait", "deletion_wait", "couninit", "done"}

\* C16 as stated: at quiescence the log holds one device entry for each
\* device message queued (found at startup, connected, disconnected).
C16_EveryDeviceMessageLogged ==
  Quiescent =>
    Len(SelectSeq(log, IsDeviceEntry))
      = Len(SelectSeq(pushed, IsFoundMsg)) + Len(SelectSeq(pushed, IsEventMsg))

\* C16 amended: every 'New Device Connected' and 'Device Disconnected'
\* message is followed by exactly one log entry for the same device, in the
\* same order, so at quiescence the device log entries are as many as those
\* messages; 'Device Found' messages of the startup enumeration are queued
\* without a log entry.
C16_EventMessagesLogged ==
  LET entries == SelectSeq(log, IsDeviceEntry)
      msgs == SelectSeq(pushed, IsEventMsg)
  IN /\ Len(entries) <= Len(msgs)
     /\ Len(msgs) <= Len(entries) + 1
     /\ Quiescent => Len(entries) = Len(msgs)
     /\ wpc \in {"creation_log", "deletion_log"} => Len(msgs) = Len(entries) + 1
     /\ \A i \in 1..Len(entries) :
          /\ entries[i].Name = msgs[i].Name
          /\ entries[i].text = EntryTextOf(msgs[i].kind)
          /\ entries[i].level = "INFO"
     /\ wpc \in {"for_devices", "found_details", "found_put"} => entries = <<>>

\* C16 witness: one device found at startup, then a connect and a disconnect:
\* three device messages, two device log entries.
C16_Witness ==
  /\ wpc = "loop"
  /\ Len(SelectSeq(pushed, IsFoundMsg)) = 1
  /\ Len(SelectSeq(pushed, IsEventMsg)) = 2
  /\ Len(SelectSeq(log, IsDeviceEntry)) = 2
  /\ log[1].text = "New device connected"
  /\ log[2].text = "Device disconnected"

TickPcs == {"tick_check", "tick_get", "tick_finally"}
Executing == IF mpc \in TickPcs THEN 1 ELSE 0

C18_EveryMessageDisplayed ==
  /\ []<>(~running \/ appended = pushed)
  /\ [](pushed = appended \o event_queue)

\* C18 witness: header, one found device and a connect were pushed and all
\* three are displayed, the GUI still running.
C18_Witness ==
  /\ running
  /\ Len(pushed) = 3
  /\ pushed[3].kind = "New Device Connected"
  /\ appended = pushed
  /\ event_queue = <<>>

\* C19: once cleanup has destroyed the window no display tick runs and
\* nothing is inserted in the display again; what the worker pushes after
\* running was set to FALSE stays in the queue.
C19_NoDisplayAfterDestroy ==
  /\ [](root = "destroyed" => (Executing = 0 /\ tickPending = 0 /\ ~running))
  /\ [][root = "destroyed" => UNCHANGED <<appended, text_box>>]_vars
  /\ [][root = "destroyed" => IsPrefix(event_queue, event_queue')]_vars

\* C19 witness: the window is destroyed, a creation-wait returned a device
\* after running was set to FALSE, and its message sits in the queue.
C19_Witness ==
  /\ root = "destroyed"
  /\ wpc = "creation_log"
  /\ waitsAfterStop = 1
  /\ event_queue # <<>>
  /\ event_queue[Len(event_queue)].kind = "New Device Connected"
  /\ Len(appended) < Len(pushed)

====
